---- MODULE Spec2Model ----
(***************************************************************************)
(* The five rackndr_* Ansible modules (params, profiles, subnets, tasks,   *)
(* templates) reconciling one named resource of one kind against the       *)
(* remote Digital Rebar API.                                               *)
(*                                                                         *)
(* run_module of each module is modelled in the steps its blocking         *)
(* transport calls cut it into:                                            *)
(*   Invoke      argument handling, no_log registration, payload shaping   *)
(*   FetchToken  pyrackndr.fetch_token_requests                            *)
(*   GetByName   the read inside create_or_update / delete, and the        *)
(*               decision taken from it                                    *)
(*   Write       the create / update / delete call (or its omission)       *)
(*   Return      diff post-processing, result merge, exit_json/fail_json   *)
(*                                                                         *)
(* The pyrackndr library (RackNDr.create_or_update, RackNDr.delete,        *)
(* fetch_token_requests), the remote API and Ansible's output masking are  *)
(* not part of the sources; they are modelled from the design document.    *)
(***************************************************************************)
EXTENDS Integers, Sequences, FiniteSets, TLC

VARIABLES
    play,           \* the task's fixed options: kind and ignore lists
    remote,         \* RemoteState: object stored under the name, or Absent
    pc,             \* position of each invocation in run_module
    params,         \* module.params and module.check_mode
    no_log_values,  \* module.no_log_values
    CONSTANTS_live, \* pyrackndr.CONSTANTS[kind] as it stands in the module process
    data,           \* the payload built by run_module
    AUTH,           \* TOKEN['header']
    calls,          \* transport calls issued by the invocation, in order
    fetched,        \* what getByName returned to the invocation
    action,         \* the Reconciler's decision
    rebar_result,   \* what create_or_update / delete returned
    ret,            \* how run_module ended and what it emitted
    before,         \* history: RemoteState when the invocation started
    idem,           \* history: the preceding successful present run, if any
    trip            \* history: progress of a create/delete/delete sequence

vars == <<play, remote, pc, params, no_log_values, CONSTANTS_live, data,
          AUTH, calls, fetched, action, rebar_result, ret, before, idem, trip>>

---------------------------------------------------------------------------
(* Bounds and value pools *)

NumDescs == 2
DescPool == <<"d1", "d2", "d3", "d4">>
Descs == {DescPool[i] : i \in 1..NumDescs}

Procs == {1}
Kinds == {"params", "profiles", "subnets", "tasks", "templates"}
ResourceName == "res0"

None == "<None>"
Absent == [absent |-> TRUE]
Null == [null |-> TRUE]
EmptyObject == [k \in {} |-> ""]

\* ignore_remote_keys default, the same list in every module that has the option
DefaultIgnoreRemote == {"CreatedAt", "CreatedBy", "LastModifiedAt", "LastModifiedBy"}
\* ignore_local_keys default of rackndr_tasks
DefaultIgnoreLocal == {"ExtraRoles", "OutputParams", "ExtraClaims", "Meta"}

IgnoreRemoteChoices ==
    {DefaultIgnoreRemote, {}, DefaultIgnoreRemote \cup {"Validated"}}
IgnoreLocalChoices == {DefaultIgnoreLocal, {"Description"}}

\* argument_spec: which modules declare the two ignore options
HasIgnoreRemoteOption(k) == k \in {"params", "profiles", "tasks", "templates"}
HasIgnoreLocalOption(k) == k = "tasks"

\* ignore_keys of a freshly constructed RackNDr object
LibIgnoreKeys == [remote |-> DefaultIgnoreRemote, local |-> {}]

REDACTED == "REDACTED BY MODULE FOR EASY DIFF"
NO_LOG_PLACEHOLDER == "VALUE_SPECIFIED_IN_NO_LOG_PARAMETER"
NO_LOG_STARS == "********"

---------------------------------------------------------------------------
(* Param schemas: json.loads(module.params['schema']) *)

SchemaChoices ==
    { [type |-> "string", default |-> "s3cr3t"],
      [type |-> "string"],
      [type |-> "integer", default |-> "s3cr3t"],
      [default |-> "s3cr3t"] }

\* the (secure, schema) pairs tried: every schema as a secure param, one
\* as a param that is not secure
SecureChoices ==
    { [secure |-> TRUE, schema |-> sc] : sc \in SchemaChoices } \cup
    { [secure |-> FALSE, schema |-> [type |-> "string", default |-> "s3cr3t"]] }

HasKey(o, k) == k \in DOMAIN o

\* run_module of rackndr_params, the "if module.params['secure']" block:
\* the values added to module.no_log_values
SecureNoLogNone(secure, schema) == {}
SecureNoLog(secure, schema) ==
    IF ~secure THEN {}
    ELSE IF ~HasKey(schema, "type") THEN {schema[k] : k \in DOMAIN schema}
    ELSE IF schema["type"] # "string" THEN {}
    ELSE IF ~HasKey(schema, "default") THEN {schema[k] : k \in DOMAIN schema}
    ELSE {schema["default"]}

\* AnsibleModule: the values of no_log=True options are registered
ArgNoLog(pr) ==
    {pr.rackn_userpass, pr.rackn_pass} \ {None, ""}

---------------------------------------------------------------------------
(* IPv4 arithmetic of the ipaddress module, as used by rackndr_subnets.    *)
(* Addresses and masks are tuples of four octets; text that does not parse *)
(* as a dotted quad is an octet outside 0..255.                            *)

IsQuad(o) == \A i \in 1..4 : o[i] \in 0..255

\* the 32-bit integer of an address, most significant bit first
Bits(o) ==
    [i \in 1..32 |-> (o[((i - 1) \div 8) + 1] \div (2 ^ (7 - ((i - 1) % 8)))) % 2]
Octet(b, j) ==
    LET bit(i) == b[8 * (j - 1) + i]
    IN  128 * bit(1) + 64 * bit(2) + 32 * bit(3) + 16 * bit(4)
        + 8 * bit(5) + 4 * bit(6) + 2 * bit(7) + bit(8)
ToQuad(b) == << Octet(b, 1), Octet(b, 2), Octet(b, 3), Octet(b, 4) >>
Invert(b) == [i \in 1..32 |-> 1 - b[i]]

\* ipaddress._count_righthand_zero_bits(number, 32)
TrailingZeroes(b) ==
    LET ones == {i \in 1..32 : b[i] = 1}
    IN  IF ones = {} THEN 32
        ELSE 32 - (CHOOSE i \in ones : \A j \in ones : j <= i)

\* ipaddress._prefix_from_ip_int: the bits above the trailing zeroes must
\* all be ones; -1 stands for the ValueError
PrefixFromIpInt(b) ==
    LET prefixlen == 32 - TrailingZeroes(b)
    IN  IF \A i \in 1..prefixlen : b[i] = 1 THEN prefixlen ELSE -1

\* ipaddress._prefix_from_ip_string: a netmask, or else a hostmask
PrefixFromIpString(mask) ==
    IF ~IsQuad(mask) THEN -1
    ELSE LET asNet == PrefixFromIpInt(Bits(mask))
         IN  IF asNet # -1 THEN asNet
             ELSE PrefixFromIpInt(Invert(Bits(mask)))

\* ip_network with strict=False: host bits are masked off, not rejected
ip_network_lenient(network, netmask) ==
    LET p == PrefixFromIpString(netmask)
        packed == Bits(network)
    IN  IF ~IsQuad(network) \/ p = -1 THEN [ok |-> FALSE]
        ELSE [ok |-> TRUE,
              with_prefixlen |->
                  [address |-> ToQuad([i \in 1..32 |->
                                        IF i > p THEN 0 ELSE packed[i]]),
                   prefixlen |-> p],
              broadcast_address |->
                  ToQuad([i \in 1..32 |-> IF i > p THEN 1 ELSE packed[i]])]

\* ipaddress.ip_network(f"{network}/{netmask}"), strict: ok = FALSE stands
\* for the ValueError it raises (unparsable text, or host bits set)
ip_network(network, netmask) ==
    LET p == PrefixFromIpString(netmask)
        packed == Bits(network)
    IN  IF ~IsQuad(network) \/ p = -1 THEN [ok |-> FALSE]
        ELSE IF \E i \in (p + 1)..32 : packed[i] = 1 THEN [ok |-> FALSE]
        ELSE [ok |-> TRUE,
              with_prefixlen |-> [address |-> network, prefixlen |-> p],
              broadcast_address |->
                  ToQuad([i \in 1..32 |-> IF i > p THEN 1 ELSE packed[i]])]

NetChoices ==
    { [network |-> <<10, 0, 0, 0>>, netmask |-> <<255, 255, 255, 0>>],
      [network |-> <<192, 168, 4, 0>>, netmask |-> <<255, 255, 252, 0>>],
      [network |-> <<10, 0, 0, 0>>, netmask |-> <<0, 0, 0, 255>>],
      [network |-> <<10, 0, 0, 1>>, netmask |-> <<255, 255, 255, 0>>],
      [network |-> <<10, 0, 0, 0>>, netmask |-> <<255, 0, 255, 0>>],
      [network |-> <<10, 0, 256, 0>>, netmask |-> <<255, 255, 0, 0>>] }

\* ip_network of each network/netmask tried, computed once
NetworkOf == [n \in NetChoices |-> ip_network(n.network, n.netmask)]

---------------------------------------------------------------------------
(* rackndr_tasks: template enrichment *)

TEMPLATE_DEFAULTS == [Path |-> "", ID |-> "", Link |-> "", Meta |-> EmptyObject]

\* the defaults written over whatever the caller supplied
enrich_template_overwrite(lobject) ==
    [k \in DOMAIN lobject \cup DOMAIN TEMPLATE_DEFAULTS |->
        IF k \in DOMAIN TEMPLATE_DEFAULTS THEN TEMPLATE_DEFAULTS[k] ELSE lobject[k]]

enrich_template(lobject) ==
    [k \in DOMAIN lobject \cup DOMAIN TEMPLATE_DEFAULTS |->
        IF k \in DOMAIN lobject THEN lobject[k] ELSE TEMPLATE_DEFAULTS[k]]

TemplatesChoices ==
    { << [Name |-> "t1", Contents |-> "c1"] >>,
      << [Name |-> "t1", Contents |-> "c1", Path |-> "/p", Link |-> "",
          ID |-> None],
         [Name |-> "t2", Contents |-> "c2", Meta |-> [color |-> "blue"]] >> }

---------------------------------------------------------------------------
(* module.params of one invocation *)

CommonParams(k, st, chk, d) ==
    [ state |-> st, check_mode |-> chk, name |-> ResourceName,
      description |-> d,
      rackn_role |-> "superuser",
      rackn_userpass |-> "rocketskates:r0cketsk8ts",
      rackn_user |-> None, rackn_pass |-> None,
      rackn_ep |-> "https://drp:8092", rackn_ep_validate |-> TRUE ]
    @@ (IF HasIgnoreRemoteOption(k)
        THEN [ignore_remote_keys |-> play.ignore_remote_keys] ELSE EmptyObject)
    @@ (IF HasIgnoreLocalOption(k)
        THEN [ignore_local_keys |-> play.ignore_local_keys] ELSE EmptyObject)

KindParams(k) ==
    CASE k = "params" ->
            { [secure |-> sec.secure, schema |-> sec.schema, documentation |-> "",
               readonly |-> FALSE, meta |-> EmptyObject] :
              sec \in SecureChoices }
      [] k = "profiles" ->
            { [documentation |-> "", readonly |-> TRUE, meta |-> EmptyObject,
               partial |-> FALSE, params |-> EmptyObject] }
      [] k = "subnets" ->
            { [enabled |-> TRUE, active_start |-> <<10, 0, 0, 10>>,
               active_end |-> <<10, 0, 0, 200>>, active_lease_time |-> 60,
               reserved_lease_time |-> 21600, gateway |-> <<10, 0, 0, 1>>,
               dns_server |-> <<10, 0, 0, 2>>, domain_name |-> "example.org",
               network |-> n.network, netmask |-> n.netmask] :
              n \in NetChoices }
      [] k = "tasks" ->
            { [templates |-> t, documentation |-> "", readonly |-> TRUE] :
              t \in TemplatesChoices }
      [] k = "templates" ->
            { [contents |-> c, readonly |-> TRUE, diff_template_contents |-> dtc] :
              c \in {"abc", "xyz"}, dtc \in BOOLEAN }

ParamChoices(k) ==
    { CommonParams(k, st, chk, d) @@ kp :
        st \in {"present", "absent"}, chk \in BOOLEAN, d \in Descs,
        kp \in KindParams(k) }

\* the credential options tried: the combined secret alone, both shapes at
\* once, the pair alone, and the pair with an empty combined secret
CredentialChoices ==
    { [rackn_userpass |-> "rocketskates:r0cketsk8ts",
       rackn_user |-> None, rackn_pass |-> None],
      [rackn_userpass |-> "rocketskates:r0cketsk8ts",
       rackn_user |-> "admin", rackn_pass |-> "hunter2"],
      [rackn_userpass |-> None,
       rackn_user |-> "admin", rackn_pass |-> "hunter2"],
      [rackn_userpass |-> "",
       rackn_user |-> "admin", rackn_pass |-> "hunter2"] }

\* one setting of the options of each module's own
PlainKindParams(k) ==
    { kp \in KindParams(k) :
        CASE k = "params" -> ~kp.secure
          [] k = "subnets" -> /\ kp.network = <<10, 0, 0, 0>>
                              /\ kp.netmask = <<255, 255, 255, 0>>
          [] k = "tasks" -> Len(kp.templates) = 1
          [] k = "templates" -> kp.contents = "abc" /\ kp.diff_template_contents
          [] OTHER -> TRUE }

\* module.params for every credential shape, with one description and one
\* setting of the module's own options
CredParamChoices(k) ==
    { cr @@ CommonParams(k, st, chk, DescPool[1]) @@ kp :
        cr \in CredentialChoices,
        st \in {"present", "absent"}, chk \in BOOLEAN,
        kp \in PlainKindParams(k) }

---------------------------------------------------------------------------
(* Payload shaping: the "data = CONSTANTS[kind].copy() ..." block of each  *)
(* run_module.                                                             *)

\* pyrackndr.CONSTANTS[kind]: only the subnets skeleton is visible from the
\* modules (an Options list of five entries with a Value key)
CONSTANTS_of(k) ==
    IF k = "subnets"
    THEN [Options |-> [i \in 1..5 |-> [Value |-> <<>>]]]
    ELSE EmptyObject

\* whether shaping completes (rackndr_subnets raises on ipaddress.ip_network)
ShapeOk(k, pr) ==
    k = "subnets" => NetworkOf[[network |-> pr.network, netmask |-> pr.netmask]].ok

\* rackndr_params
ShapeParam(pr) ==
    [ Description |-> pr.description, Documentation |-> pr.documentation,
      Name |-> pr.name, ReadOnly |-> pr.readonly, Meta |-> pr.meta,
      Schema |-> pr.schema, Secure |-> pr.secure ] @@ CONSTANTS_of("params")

\* rackndr_profiles
ShapeProfile(pr) ==
    [ Description |-> pr.description, Documentation |-> pr.documentation,
      Name |-> pr.name, ReadOnly |-> pr.readonly, Meta |-> pr.meta,
      Partial |-> pr.partial, Params |-> pr.params ] @@ CONSTANTS_of("profiles")

\* rackndr_subnets: Options[0..4] are gateway, dns_server, domain_name,
\* netmask and the broadcast address; Subnet is the network with its prefix
\* the shaping with the netmask and the broadcast address in each other's
\* position
ShapeSubnetSwapped(pr) ==
    LET net == NetworkOf[[network |-> pr.network, netmask |-> pr.netmask]]
        vals == << pr.gateway, pr.dns_server, pr.domain_name,
                   net.broadcast_address, pr.netmask >>
    IN  [ ActiveEnd |-> pr.active_end,
          ActiveLeaseTime |-> pr.active_lease_time,
          ActiveStart |-> pr.active_start,
          Description |-> pr.description, Enabled |-> pr.enabled,
          Name |-> pr.name,
          Options |-> [i \in 1..5 |->
              [CONSTANTS_of("subnets").Options[i] EXCEPT !.Value = vals[i]]],
          ReservedLeaseTime |-> pr.reserved_lease_time,
          Subnet |-> net.with_prefixlen ]

ShapeSubnet(pr) ==
    LET net == NetworkOf[[network |-> pr.network, netmask |-> pr.netmask]]
        vals == << pr.gateway, pr.dns_server, pr.domain_name,
                   pr.netmask, net.broadcast_address >>
    IN  [ ActiveEnd |-> pr.active_end,
          ActiveLeaseTime |-> pr.active_lease_time,
          ActiveStart |-> pr.active_start,
          Description |-> pr.description, Enabled |-> pr.enabled,
          Name |-> pr.name,
          Options |-> [i \in 1..5 |->
              [CONSTANTS_of("subnets").Options[i] EXCEPT !.Value = vals[i]]],
          ReservedLeaseTime |-> pr.reserved_lease_time,
          Subnet |-> net.with_prefixlen ]

\* rackndr_tasks: every template entry is enriched
ShapeTask(pr) ==
    [ Templates |-> [i \in 1..Len(pr.templates) |->
                        enrich_template(pr.templates[i])],
      Description |-> pr.description, Documentation |-> pr.documentation,
      Name |-> pr.name, ReadOnly |-> pr.readonly ] @@ CONSTANTS_of("tasks")

\* rackndr_templates
ShapeTemplate(pr) ==
    [ Contents |-> pr.contents, Description |-> pr.description,
      ID |-> pr.name, ReadOnly |-> pr.readonly ] @@ CONSTANTS_of("templates")

ShapePayload(k, pr) ==
    CASE k = "params" -> ShapeParam(pr)
      [] k = "profiles" -> ShapeProfile(pr)
      [] k = "subnets" -> ShapeSubnet(pr)
      [] k = "tasks" -> ShapeTask(pr)
      [] k = "templates" -> ShapeTemplate(pr)

\* pyrackndr.CONSTANTS[kind] once the shaping statements have run, in a
\* module process that has just imported the library. CONSTANTS[kind].copy()
\* is a shallow copy: a key assigned on data leaves the skeleton alone, but
\* data['Options'] is the skeleton's own list, so rackndr_subnets writes the
\* Value entries into the skeleton, the fifth one only if ip_network did not
\* raise.
SkeletonAfter(k, pr) ==
    IF k # "subnets" THEN CONSTANTS_of(k)
    ELSE LET net == NetworkOf[[network |-> pr.network, netmask |-> pr.netmask]]
             vals == << pr.gateway, pr.dns_server, pr.domain_name, pr.netmask >>
             old == CONSTANTS_of(k).Options
         IN  [ CONSTANTS_of(k) EXCEPT !.Options =
                 [i \in 1..5 |->
                     IF i <= 4 THEN [old[i] EXCEPT !.Value = vals[i]]
                     ELSE IF net.ok
                          THEN [old[i] EXCEPT !.Value = net.broadcast_address]
                          ELSE old[i]] ]

\* creds: the combined secret when truthy, else "user:pass"
Truthy(s) == s # None /\ s # ""
\* the pair preferred over the combined secret when a user is given
CredsPairFirst(pr) ==
    IF Truthy(pr.rackn_user) THEN <<pr.rackn_user, ":", pr.rackn_pass>>
    ELSE <<pr.rackn_userpass>>
Creds(pr) ==
    IF Truthy(pr.rackn_userpass) THEN <<pr.rackn_userpass>>
    ELSE <<pr.rackn_user, ":", pr.rackn_pass>>

---------------------------------------------------------------------------
(* Wiring of the RackNDr object in run_module *)

\* rebar_object.dryrun = module.check_mode
DryRunNever(pr) == FALSE
DryRunAlways(pr) == TRUE
DryRun(pr) == pr.check_mode

\* rebar_object.ignore_keys['remote'] = module.params['ignore_remote_keys'],
\* rebar_object.ignore_keys['local'] = module.params['ignore_local_keys'];
\* a module without the option leaves the library's list in place
IgnoreKeysUnwired(k, pr) == LibIgnoreKeys
\* the local list handed over with the remote names added to it
IgnoreKeysLocalBoth(k, pr) ==
    [ remote |-> IF HasIgnoreRemoteOption(k) THEN pr.ignore_remote_keys
                 ELSE LibIgnoreKeys.remote,
      local  |-> IF HasIgnoreLocalOption(k)
                 THEN pr.ignore_local_keys \cup pr.ignore_remote_keys
                 ELSE LibIgnoreKeys.local ]
IgnoreKeys(k, pr) ==
    [ remote |-> IF HasIgnoreRemoteOption(k) THEN pr.ignore_remote_keys
                 ELSE LibIgnoreKeys.remote,
      local  |-> IF HasIgnoreLocalOption(k) THEN pr.ignore_local_keys
                 ELSE LibIgnoreKeys.local ]

\* if module.params['state'] == 'present': create_or_update else: delete
DispatchAlwaysCreate(state) == "create_or_update"
Dispatch(state) == IF state = "present" THEN "create_or_update" ELSE "delete"

---------------------------------------------------------------------------
(* Diff Engine and Reconciler of pyrackndr, from the design document       *)

Filter(o, keys) == [k \in DOMAIN o \ keys |-> o[k]]

\* diff(desired, remote, ignoreRemoteFields, ignoreLocalFields); desired is
\* Null for a deletion, rem is Absent when nothing is stored
DiffEngine(desired, rem, ign) ==
    LET filteredRemote == Filter(rem, ign.remote)
        filteredDesired == Filter(desired, ign.local)
    IN  IF desired = Null
        THEN [ before |-> IF rem = Absent THEN Null ELSE filteredRemote,
               after |-> Null, changed |-> rem # Absent ]
        ELSE IF rem = Absent
        THEN [ before |-> Null, after |-> filteredDesired, changed |-> TRUE ]
        ELSE IF filteredRemote = filteredDesired
        THEN [ before |-> filteredRemote, after |-> filteredRemote,
               changed |-> FALSE ]
        ELSE [ before |-> filteredRemote, after |-> filteredDesired,
               changed |-> TRUE ]

\* DECIDE of create_or_update and of delete
Decide(method, rem, changed) ==
    IF method = "create_or_update"
    THEN IF rem = Absent THEN "CREATE"
         ELSE IF changed THEN "UPDATE" ELSE "NOOP"
    ELSE IF rem = Absent THEN "NOOP" ELSE "DELETE"

\* the transport call of a mutating decision
CallOf(act) ==
    CASE act = "CREATE" -> "create"
      [] act = "UPDATE" -> "update"
      [] act = "DELETE" -> "delete"

\* result code mapping: a successful create is 201, everything else 200
SuccessCode(act) == IF act = "CREATE" THEN 201 ELSE 200

\* the ReconcileResult envelope
Envelope(changed, message, code, diff) ==
    [changed |-> changed, message |-> message, http_code |-> code, diff |-> diff]

\* what is returned when no write is issued (a no-op, or dryrun): changed
\* and the diff as decided
Unwritten(a) ==
    Envelope(a.changed, << >>, SuccessCode(a.act), a.diff)

---------------------------------------------------------------------------
(* The remote API, from the design document *)

\* fields the server computes and adds to what it stores
ServerFieldChoices ==
    { [CreatedAt |-> "ts"], [CreatedAt |-> "ts", Validated |-> "true"] }

Stored(payload, added) == payload @@ added

\* the body of a response: a fixed text, or one that echoes a payload value
Messages(word, payload) ==
    { <<word>> } \cup
    ( IF payload # Null /\ HasKey(payload, "Schema")
         /\ HasKey(payload.Schema, "default")
      THEN { <<word, payload.Schema["default"]>> } ELSE {} )

---------------------------------------------------------------------------
(* rackndr_templates: presentation of the diff *)

IsObject(side) == side # Null /\ ~HasKey(side, "text")
Text(s) == [text |-> s]

\* whether the post-processing runs to its end: subscripting None raises
\* TypeError (caught only around 'before'), a missing key raises KeyError
PresentDiffOk(pr, diff) ==
    IF pr.diff_template_contents
    THEN /\ IsObject(diff.before) => HasKey(diff.before, "Contents")
         /\ pr.state # "absent" =>
                IsObject(diff.after) /\ HasKey(diff.after, "Contents")
    ELSE IsObject(diff.after)

PresentDiffKeepAfter(pr, diff) ==
    IF pr.diff_template_contents
    THEN [ before |-> IF IsObject(diff.before)
                      THEN Text(diff.before["Contents"]) ELSE Null,
           after  |-> IF pr.state = "absent" THEN Null
                      ELSE Text(diff.after["Contents"]) ]
    ELSE [ before |-> IF IsObject(diff.before)
                      THEN [Contents |-> REDACTED] @@ diff.before ELSE Null,
           after  |-> diff.after ]

\* the contents presentation with 'before' left as the whole object
PresentDiffWholeBefore(pr, diff) ==
    IF pr.diff_template_contents
    THEN [ before |-> diff.before,
           after  |-> IF pr.state = "absent" THEN Null
                      ELSE Text(diff.after["Contents"]) ]
    ELSE [ before |-> IF IsObject(diff.before)
                      THEN [Contents |-> REDACTED] @@ diff.before ELSE Null,
           after  |-> [Contents |-> REDACTED] @@ diff.after ]

PresentDiff(pr, diff) ==
    IF pr.diff_template_contents
    THEN [ before |-> IF IsObject(diff.before)
                      THEN Text(diff.before["Contents"]) ELSE Null,
           after  |-> IF pr.state = "absent" THEN Null
                      ELSE Text(diff.after["Contents"]) ]
    ELSE [ before |-> IF IsObject(diff.before)
                      THEN [Contents |-> REDACTED] @@ diff.before ELSE Null,
           after  |-> [Contents |-> REDACTED] @@ diff.after ]

---------------------------------------------------------------------------
(* End of run_module: merge, exit_json / fail_json *)

\* result = dict(changed=False, message='')
SeedResult == [changed |-> FALSE, message |-> <<>>]

\* result = {**result, **rebar_result}
Merge(seed, rr) == rr @@ seed

\* if result['http_code'] not in [200, 201]: fail_json(msg='Uh-oh', **result)
\* else exit_json(**result)
\* exit_json whatever the code
ExitNeverFails(result) == [how |-> "exit_json", kwargs |-> result]
Exit(result) ==
    IF result.http_code \notin {200, 201}
    THEN [how |-> "fail_json", kwargs |-> [msg |-> "Uh-oh"] @@ result]
    ELSE [how |-> "exit_json", kwargs |-> result]

---------------------------------------------------------------------------
(* Ansible's masking of what exit_json / fail_json emit: every occurrence  *)
(* of a registered value is suppressed, wherever it stands                 *)

TextKeys == {"Description", "Documentation", "Name", "ID", "Contents",
             "CreatedAt", "Validated"}

MaskText(s, nl) == IF s \in nl THEN NO_LOG_PLACEHOLDER ELSE s

MaskTokens(m, nl) ==
    [i \in 1..Len(m) |-> IF m[i] \in nl THEN NO_LOG_STARS ELSE m[i]]

MaskObject(o, nl) ==
    [k \in DOMAIN o |->
        IF k \in TextKeys THEN MaskText(o[k], nl)
        ELSE IF k = "Schema"
             THEN [j \in DOMAIN o[k] |-> MaskText(o[k][j], nl)]
             ELSE o[k]]

MaskSide(side, nl) ==
    IF side = Null THEN Null
    ELSE IF HasKey(side, "text") THEN Text(MaskText(side.text, nl))
    ELSE MaskObject(side, nl)

remove_values(kwargs, nl) ==
    [k \in DOMAIN kwargs |->
        CASE k = "message" -> MaskTokens(kwargs[k], nl)
          [] k = "diff" -> [before |-> MaskSide(kwargs[k].before, nl),
                            after |-> MaskSide(kwargs[k].after, nl)]
          [] OTHER -> kwargs[k]]

---------------------------------------------------------------------------
(* History of the finished invocation, folded in when the next one starts  *)

WriteOps == {"create", "update", "delete"}
OpsOf(p) == {calls[p][i].op : i \in 1..Len(calls[p])}

\* the run met no rejected input, no AuthError and no failing transport call
Clean(p) ==
    /\ ret[p].error \notin {"ValidationError", "AuthError", "TransportError"}
    /\ rebar_result[p] # Null
    /\ rebar_result[p].http_code \in {200, 201}

Changed(p) ==
    IF ret[p].how = "exception" THEN "none"
    ELSE IF ret[p].kwargs.changed THEN "true" ELSE "false"

Observation(p) ==
    [how |-> ret[p].how, changed |-> Changed(p), absentAfter |-> remote = Absent]

NextIdem(p) ==
    IF /\ pc[p] = "done" /\ ret[p].how = "exit_json"
       /\ ~params[p].check_mode /\ params[p].state = "present"
    THEN params[p] ELSE Null

NextTrip(p) ==
    IF pc[p] # "done" THEN trip
    ELSE IF /\ Clean(p) /\ ~params[p].check_mode
            /\ params[p].state = "present" /\ before[p] = Absent
    THEN << Observation(p) >>
    ELSE IF /\ Len(trip) \in {1, 2} /\ Clean(p) /\ ~params[p].check_mode
            /\ params[p].state = "absent"
    THEN Append(trip, Observation(p))
    ELSE << >>

---------------------------------------------------------------------------
(* Actions *)

PlayChoices ==
    { [kind |-> k, ignore_remote_keys |-> ir, ignore_local_keys |-> il] :
        k \in Kinds, ir \in IgnoreRemoteChoices, il \in IgnoreLocalChoices }

Init ==
    /\ play \in { pl \in PlayChoices :
                    /\ HasIgnoreRemoteOption(pl.kind)
                         \/ pl.ignore_remote_keys = DefaultIgnoreRemote
                    /\ HasIgnoreLocalOption(pl.kind)
                         \/ pl.ignore_local_keys = DefaultIgnoreLocal }
    /\ remote = Absent
    /\ pc = [p \in Procs |-> "idle"]
    /\ params = [p \in Procs |-> Null]
    /\ no_log_values = [p \in Procs |-> {}]
    /\ CONSTANTS_live = [p \in Procs |-> CONSTANTS_of(play.kind)]
    /\ data = [p \in Procs |-> Null]
    /\ AUTH = [p \in Procs |-> Null]
    /\ calls = [p \in Procs |-> << >>]
    /\ fetched = [p \in Procs |-> Null]
    /\ action = [p \in Procs |-> Null]
    /\ rebar_result = [p \in Procs |-> Null]
    /\ ret = [p \in Procs |-> Null]
    /\ before = [p \in Procs |-> Null]
    /\ idem = Null
    /\ trip = << >>

Raised(err) == [how |-> "exception", error |-> err]

\* run_module up to the first transport call: AnsibleModule(...), the no_log
\* registration of rackndr_params, and the payload
InvokeWith(p, pr) ==
    /\ params' = [params EXCEPT ![p] = pr]
    /\ no_log_values' = [no_log_values EXCEPT ![p] =
          ArgNoLog(pr) \cup
          (IF play.kind = "params" THEN SecureNoLog(pr.secure, pr.schema)
           ELSE {})]
    /\ CONSTANTS_live' = [CONSTANTS_live EXCEPT ![p] =
          SkeletonAfter(play.kind, pr)]
    /\ IF ShapeOk(play.kind, pr)
       THEN /\ data' = [data EXCEPT ![p] = ShapePayload(play.kind, pr)]
            /\ pc' = [pc EXCEPT ![p] = "shaped"]
            /\ ret' = [ret EXCEPT ![p] = Null]
       ELSE /\ data' = [data EXCEPT ![p] = Null]
            /\ pc' = [pc EXCEPT ![p] = "done"]
            /\ ret' = [ret EXCEPT ![p] = Raised("ValidationError")]
    /\ idem' = NextIdem(p)
    /\ trip' = NextTrip(p)
    /\ before' = [before EXCEPT ![p] = remote]
    /\ AUTH' = [AUTH EXCEPT ![p] = Null]
    /\ calls' = [calls EXCEPT ![p] = << >>]
    /\ fetched' = [fetched EXCEPT ![p] = Null]
    /\ action' = [action EXCEPT ![p] = Null]
    /\ rebar_result' = [rebar_result EXCEPT ![p] = Null]
    /\ UNCHANGED <<play, remote>>

\* a module runs when none is running
Invoke(p) ==
    /\ pc[p] \in {"idle", "done"}
    /\ \E pr \in ParamChoices(play.kind) : InvokeWith(p, pr)

\* the same invocation, over the credential shapes
InvokeCreds(p) ==
    /\ pc[p] \in {"idle", "done"}
    /\ \E pr \in CredParamChoices(play.kind) : InvokeWith(p, pr)

\* what fetch_token_requests returns for a token the server issued
TokenResponse(t) == [header |-> <<"Bearer", t>>]

\* the tokens the server may issue
TokenChoices == {"tokenA", "tokenB"}

\* AUTH = TOKEN['header']
AuthOfCached(TOKEN) == <<"Bearer", "tokenA">>
AuthOf(TOKEN) == TOKEN.header

\* TOKEN = fetch_token_requests(role, creds, ep, ssl); AUTH = TOKEN['header']
\* with the server issuing one of tokens, or refusing
FetchTokenFrom(p, tokens) ==
    /\ pc[p] = "shaped"
    /\ \/ \E t \in tokens :
            /\ calls' = [calls EXCEPT ![p] = Append(@,
                  [op |-> "authenticate", role |-> params[p].rackn_role,
                   creds |-> Creds(params[p]), response |-> TokenResponse(t)])]
            /\ AUTH' = [AUTH EXCEPT ![p] = AuthOf(TokenResponse(t))]
            /\ pc' = [pc EXCEPT ![p] = "authed"]
            /\ UNCHANGED ret
       \/ /\ calls' = [calls EXCEPT ![p] = Append(@,
                [op |-> "authenticate", role |-> params[p].rackn_role,
                 creds |-> Creds(params[p]), response |-> Null])]
          /\ pc' = [pc EXCEPT ![p] = "done"]
          /\ ret' = [ret EXCEPT ![p] = Raised("AuthError")]
          /\ UNCHANGED AUTH
    /\ UNCHANGED <<play, remote, params, no_log_values, CONSTANTS_live, data,
                   fetched, action, rebar_result, before, idem, trip>>

FetchToken(p) == FetchTokenFrom(p, {"tokenA"})

\* the same step against a server that issues a token of TokenChoices
FetchTokenAny(p) == FetchTokenFrom(p, TokenChoices)

\* the read at the start of create_or_update / delete, and the decision
GetByName(p) ==
    /\ pc[p] = "authed"
    /\ calls' = [calls EXCEPT ![p] = Append(@,
          [op |-> "getByName", auth |-> AUTH[p]])]
    /\ \/ LET method == Dispatch(params[p].state)
              desired == IF method = "delete" THEN Null ELSE data[p]
              d == DiffEngine(desired, remote, IgnoreKeys(play.kind, params[p]))
          IN  /\ fetched' = [fetched EXCEPT ![p] = remote]
              /\ action' = [action EXCEPT ![p] =
                    [ act |-> Decide(method, remote, d.changed),
                      changed |-> d.changed,
                      diff |-> [before |-> d.before, after |-> d.after] ]]
              /\ pc' = [pc EXCEPT ![p] = "decided"]
              /\ UNCHANGED ret
       \/ /\ pc' = [pc EXCEPT ![p] = "done"]
          /\ ret' = [ret EXCEPT ![p] = Raised("TransportError")]
          /\ UNCHANGED <<fetched, action>>
    /\ UNCHANGED <<play, remote, params, no_log_values, CONSTANTS_live, data,
                   AUTH, rebar_result, before, idem, trip>>

\* the mutating call of create_or_update / delete, skipped for a no-op and
\* under dryrun
Write(p) ==
    /\ pc[p] = "decided"
    /\ pc' = [pc EXCEPT ![p] = "reconciled"]
    /\ LET a == action[p]
           payload == IF a.act = "DELETE" THEN Null ELSE data[p]
       IN  IF a.act = "NOOP" \/ DryRun(params[p])
           THEN /\ rebar_result' = [rebar_result EXCEPT ![p] = Unwritten(a)]
                /\ UNCHANGED <<remote, calls>>
           ELSE /\ calls' = [calls EXCEPT ![p] = Append(@,
                      [op |-> CallOf(a.act), auth |-> AUTH[p]])]
                /\ \/ /\ \E added \in ServerFieldChoices :
                            remote' = IF a.act = "DELETE" THEN Absent
                                      ELSE Stored(data[p], added)
                      /\ \E m \in Messages("ok", payload) :
                            rebar_result' = [rebar_result EXCEPT ![p] =
                               Envelope(a.changed, m, SuccessCode(a.act), a.diff)]
                   \/ /\ UNCHANGED remote
                      /\ \E m \in Messages("error", payload) :
                            rebar_result' = [rebar_result EXCEPT ![p] =
                               Envelope(a.changed, m, 500, a.diff)]
    /\ UNCHANGED <<play, params, no_log_values, CONSTANTS_live, data, AUTH,
                   fetched, action, ret, before, idem, trip>>

\* the rest of run_module: the template diff presentation, the merge and
\* exit_json / fail_json
Return(p) ==
    /\ pc[p] = "reconciled"
    /\ pc' = [pc EXCEPT ![p] = "done"]
    /\ LET rr == rebar_result[p]
           present == play.kind = "templates" /\ HasKey(rr, "diff")
       IN  IF present /\ ~PresentDiffOk(params[p], rr.diff)
           THEN ret' = [ret EXCEPT ![p] = Raised("TypeError")]
           ELSE LET shown == IF present
                             THEN [rr EXCEPT !.diff = PresentDiff(params[p], rr.diff)]
                             ELSE rr
                    out == Exit(Merge(SeedResult, shown))
                IN  ret' = [ret EXCEPT ![p] =
                       [ how |-> out.how, error |-> "none", kwargs |-> out.kwargs,
                         output |-> remove_values(out.kwargs, no_log_values[p]) ]]
    /\ UNCHANGED <<play, remote, params, no_log_values, CONSTANTS_live, data,
                   AUTH, calls, fetched, action, rebar_result, before, idem,
                   trip>>

Next == \E p \in Procs :
            Invoke(p) \/ FetchToken(p) \/ GetByName(p) \/ Write(p) \/ Return(p)

Spec == Init /\ [][Next]_vars

\* the modules run with every credential shape against a server that issues
\* different tokens, with the default ignore lists
InitCreds ==
    /\ Init
    /\ play.ignore_remote_keys = DefaultIgnoreRemote
    /\ play.ignore_local_keys = DefaultIgnoreLocal

NextCreds == \E p \in Procs :
                InvokeCreds(p) \/ FetchTokenAny(p) \/ GetByName(p) \/ Write(p)
                \/ Return(p)

SpecCreds == InitCreds /\ [][NextCreds]_vars

\* two module processes started by concurrent tasks on the same name
RaceProcs == {1, 2}

\* module.params of a concurrent real run with state 'present'; the two
\* runs may ask for different descriptions
RaceParamChoices(k) ==
    { CommonParams(k, "present", FALSE, d) @@ kp :
        d \in {DescPool[1], DescPool[2]}, kp \in PlainKindParams(k) }

\* each of the concurrent processes runs its module once
InvokeOnce(p) ==
    /\ pc[p] = "idle"
    /\ \E pr \in RaceParamChoices(play.kind) : InvokeWith(p, pr)

\* the state before any module has run, for the processes procs and the
\* plays tried
InitOver(procs, plays) ==
    /\ play \in plays
    /\ remote = Absent
    /\ pc = [p \in procs |-> "idle"]
    /\ params = [p \in procs |-> Null]
    /\ no_log_values = [p \in procs |-> {}]
    /\ CONSTANTS_live = [p \in procs |-> CONSTANTS_of(play.kind)]
    /\ data = [p \in procs |-> Null]
    /\ AUTH = [p \in procs |-> Null]
    /\ calls = [p \in procs |-> << >>]
    /\ fetched = [p \in procs |-> Null]
    /\ action = [p \in procs |-> Null]
    /\ rebar_result = [p \in procs |-> Null]
    /\ ret = [p \in procs |-> Null]
    /\ before = [p \in procs |-> Null]
    /\ idem = Null
    /\ trip = << >>

InitRace ==
    InitOver(RaceProcs,
             { pl \in PlayChoices :
                 /\ pl.ignore_remote_keys = DefaultIgnoreRemote
                 /\ pl.ignore_local_keys = DefaultIgnoreLocal })

NextRace == \E p \in RaceProcs :
                InvokeOnce(p) \/ FetchToken(p) \/ GetByName(p) \/ Write(p)
                \/ Return(p)

SpecRace == InitRace /\ [][NextRace]_vars

\* ignore_remote_keys of the example in the documentation of rackndr_tasks
ExampleIgnoreRemote == DefaultIgnoreRemote \cup {"Meta"}

\* the modules run with the ignore lists of the task example as well: a
\* module is given the lists it has an option for
ListPlayChoices ==
    { [kind |-> k, ignore_remote_keys |-> ir, ignore_local_keys |-> il] :
        k \in Kinds,
        ir \in {DefaultIgnoreRemote, ExampleIgnoreRemote},
        il \in IgnoreLocalChoices }

InitLists ==
    InitOver(Procs,
             { pl \in ListPlayChoices :
                 /\ HasIgnoreRemoteOption(pl.kind)
                      \/ pl.ignore_remote_keys = DefaultIgnoreRemote
                 /\ HasIgnoreLocalOption(pl.kind)
                      \/ pl.ignore_local_keys = DefaultIgnoreLocal })

NextLists == \E p \in Procs :
                InvokeCreds(p) \/ FetchToken(p) \/ GetByName(p) \/ Write(p)
                \/ Return(p)

SpecLists == InitLists /\ [][NextLists]_vars

---------------------------------------------------------------------------
(* Properties *)

Started(p) == params[p] # Null
Decided(p) == action[p] # Null
Reconciled(p) == rebar_result[p] # Null
Done(p) == pc[p] = "done"
Returned(p) == Done(p) /\ ret[p].how \in {"exit_json", "fail_json"}

\* the ignore lists the caller asked for; a module without the option has
\* the library's list
CallerIgnoreRemote(p) ==
    IF HasKey(params[p], "ignore_remote_keys")
    THEN params[p].ignore_remote_keys ELSE LibIgnoreKeys.remote
CallerIgnoreLocal(p) ==
    IF HasKey(params[p], "ignore_local_keys")
    THEN params[p].ignore_local_keys ELSE LibIgnoreKeys.local

\* C1: an invocation run in check mode issues no create, update or delete
\* call, and the remote object is the one that was there when it started.
C1_CheckModeNoMutation ==
    \A p \in Procs :
        (Started(p) /\ params[p].check_mode) =>
            /\ OpsOf(p) \cap WriteOps = {}
            /\ remote = before[p]

\* a check-mode run on an absent resource that reported changed, with the
\* resource still absent
C1_Witness ==
    \E p \in Procs :
        /\ Returned(p) /\ params[p].check_mode
        /\ before[p] = Absent /\ action[p].act = "CREATE"
        /\ ret[p].kwargs.changed
        /\ remote = Absent

\* what the design fixes for changed and the diff, from the intent, the
\* desired state, the ignore lists and the fetched object alone
ExpectedDiff(p) ==
    DiffEngine(IF params[p].state = "present" THEN data[p] ELSE Null,
               fetched[p],
               [remote |-> CallerIgnoreRemote(p), local |-> CallerIgnoreLocal(p)])

\* C2: changed and the DiffResult returned by the Reconciler are determined
\* by desired state, intent, ignore lists and fetched remote state, so a
\* check-mode run returns what the real run returns; only the real run
\* issues the write.
C2_CheckModeSameResult ==
    \A p \in Procs :
        Reconciled(p) =>
            /\ rebar_result[p].changed = ExpectedDiff(p).changed
            /\ rebar_result[p].diff.before = ExpectedDiff(p).before
            /\ rebar_result[p].diff.after = ExpectedDiff(p).after
            /\ (action[p].act # "NOOP" =>
                  (params[p].check_mode <=> OpsOf(p) \cap WriteOps = {}))

\* a check-mode run that decided UPDATE, returned changed with the diff of
\* the update, and issued no write
C2_Witness ==
    \E p \in Procs :
        /\ Reconciled(p) /\ params[p].check_mode
        /\ action[p].act = "UPDATE"
        /\ rebar_result[p].changed
        /\ rebar_result[p].diff.before # rebar_result[p].diff.after
        /\ OpsOf(p) \cap WriteOps = {}

\* C3: the decision follows the DECIDE table, create_or_update is used
\* exactly for state 'present', and the only write issued is the one of
\* the decision.
DecideTable(st, found, ch) ==
    CASE st = "present" /\ ~found -> "CREATE"
      [] st = "present" /\ found /\ ~ch -> "NOOP"
      [] st = "present" /\ found /\ ch -> "UPDATE"
      [] st = "absent" /\ ~found -> "NOOP"
      [] st = "absent" /\ found -> "DELETE"

C3_DecideTable ==
    \A p \in Procs :
        Decided(p) =>
            LET act == DecideTable(params[p].state, fetched[p] # Absent,
                                   action[p].changed)
            IN  /\ action[p].act = act
                /\ OpsOf(p) \cap WriteOps \subseteq
                      (IF act = "NOOP" THEN {} ELSE {CallOf(act)})

\* a real run with state 'absent' on an existing resource: DELETE, and the
\* delete call issued
C3_Witness ==
    \E p \in Procs :
        /\ Done(p) /\ Decided(p) /\ params[p].state = "absent"
        /\ fetched[p] # Absent
        /\ action[p].act = "DELETE"
        /\ "delete" \in OpsOf(p)

\* C4: changed is true exactly when the filtered desired state differs from
\* the filtered remote state (present, found), or the resource is to be
\* created (present, not found) or deleted (absent, found).
MustChange(p) ==
    LET st == params[p].state
        rem == fetched[p]
    IN  \/ /\ st = "present" /\ rem # Absent
           /\ Filter(data[p], CallerIgnoreLocal(p))
                # Filter(rem, CallerIgnoreRemote(p))
        \/ st = "present" /\ rem = Absent
        \/ st = "absent" /\ rem # Absent

C4_ChangedIff ==
    \A p \in Procs :
        /\ Reconciled(p) => (rebar_result[p].changed <=> MustChange(p))
        /\ (Returned(p) /\ Reconciled(p)) =>
              (ret[p].kwargs.changed <=> MustChange(p))

\* a returned no-op of a present run whose caller-supplied ignore list, and
\* not the default one, is what makes the two sides equal
C4_Witness ==
    \E p \in Procs :
        /\ Returned(p) /\ Reconciled(p) /\ params[p].state = "present"
        /\ fetched[p] # Absent
        /\ ~ret[p].kwargs.changed
        /\ Filter(data[p], {}) # Filter(fetched[p], DefaultIgnoreRemote)

\* the invocation repeats the request of the successful real present run
\* that came right before it (check mode aside)
SameRequest(p) ==
    /\ idem # Null
    /\ Started(p)
    /\ [idem EXCEPT !.check_mode = params[p].check_mode] = params[p]

\* the ignore lists leave the same fields on both sides of the comparison:
\* every stored field that is not a field of the filtered desired state is
\* in the remote ignore list, and no field of the filtered desired state is
Comparable(p) ==
    \/ before[p] = Absent
    \/ DOMAIN before[p] \ CallerIgnoreRemote(p)
         = DOMAIN data[p] \ CallerIgnoreLocal(p)

\* C5 as claimed: after a successful real run with intent present, the same
\* request again returns changed=false and issues no write.
C5_Idempotent ==
    \A p \in Procs :
        (SameRequest(p) /\ Returned(p)) =>
            /\ ~ret[p].kwargs.changed
            /\ OpsOf(p) \cap WriteOps = {}

\* C5 as amended: the same, for ignore lists that leave the same fields on
\* both sides of the comparison.
C5_IdempotentComparable ==
    \A p \in Procs :
        (SameRequest(p) /\ Returned(p) /\ Comparable(p)) =>
            /\ ret[p].how = "exit_json"
            /\ ~ret[p].kwargs.changed
            /\ OpsOf(p) \cap WriteOps = {}

\* a repeated request that returned unchanged although the server had added
\* a field outside the default ignore list, which the caller ignores
C5_Witness ==
    \E p \in Procs :
        /\ SameRequest(p) /\ Returned(p) /\ Comparable(p)
        /\ before[p] # Absent /\ HasKey(before[p], "Validated")
        /\ ~ret[p].kwargs.changed

\* C6: from an absent resource, real runs with intents present, absent,
\* absent return changed=true, changed=true, changed=false, and the
\* resource is absent at the end.
C6_RoundTrip ==
    /\ Len(trip) >= 1 =>
          trip[1].how = "exit_json" /\ trip[1].changed = "true"
    /\ Len(trip) >= 2 =>
          trip[2].how = "exit_json" /\ trip[2].changed = "true"
    /\ Len(trip) >= 3 =>
          /\ trip[3].how = "exit_json" /\ trip[3].changed = "false"
          /\ trip[3].absentAfter

\* C7: an invocation that got a reconcile result ends in exit_json exactly
\* when http_code is 200 or 201, and otherwise in fail_json with msg
\* 'Uh-oh' and the envelope fields as they were.
C7_ExitIffSuccessCode ==
    \A p \in Procs :
        (Done(p) /\ Reconciled(p)) =>
            LET rr == rebar_result[p]
                shown == IF play.kind = "templates"
                         THEN PresentDiff(params[p], rr.diff) ELSE rr.diff
            IN  /\ ret[p].how = "exit_json" <=> rr.http_code \in {200, 201}
                /\ rr.http_code \notin {200, 201} =>
                      /\ ret[p].how = "fail_json"
                      /\ ret[p].kwargs.msg = "Uh-oh"
                /\ ret[p].how # "exception" =>
                      /\ ret[p].kwargs.changed = rr.changed
                      /\ ret[p].kwargs.message = rr.message
                      /\ ret[p].kwargs.http_code = rr.http_code
                      /\ ret[p].kwargs.diff = shown

\* C8: a returned result with changed=false that carries a diff has
\* diff.before = diff.after, in what run_module hands over and in what is
\* emitted; for templates in both presentations of the diff.
C8_NoopDiffSymmetric ==
    \A p \in Procs :
        (Returned(p) /\ HasKey(ret[p].kwargs, "diff") /\ ~ret[p].kwargs.changed) =>
            /\ ret[p].kwargs.diff.before = ret[p].kwargs.diff.after
            /\ ret[p].output.diff.before = ret[p].output.diff.after

\* a template no-op on an existing object, presented with the marker in
\* place of the contents on both sides
C8_Witness ==
    \E p \in Procs :
        /\ Returned(p) /\ play.kind = "templates"
        /\ ~params[p].diff_template_contents
        /\ ~ret[p].kwargs.changed
        /\ IsObject(ret[p].kwargs.diff.before)
        /\ ret[p].kwargs.diff.before["Contents"] = REDACTED
        /\ ret[p].kwargs.diff.after["Contents"] = REDACTED

\* fields stored remotely that the filtered desired state does not have
RemoteOnly(p) ==
    DOMAIN fetched[p] \ DOMAIN Filter(data[p], CallerIgnoreLocal(p))

\* the filtered desired state is found unchanged in the remote object
OtherwiseEqual(p) ==
    LET fd == Filter(data[p], CallerIgnoreLocal(p))
    IN  \A k \in DOMAIN fd :
            /\ k \in DOMAIN fetched[p] \ CallerIgnoreRemote(p)
            /\ fetched[p][k] = fd[k]

\* C9: intent present, resource found, the filtered desired state equal to
\* the remote object as far as it goes: a remote-only field outside the
\* remote ignore list gives changed=true and UPDATE; with every remote-only
\* field in the list the result is changed=false and NOOP.
C9_RemoteOnlyField ==
    \A p \in Procs :
        (/\ Decided(p) /\ params[p].state = "present"
         /\ fetched[p] # Absent /\ OtherwiseEqual(p)) =>
            IF RemoteOnly(p) \subseteq CallerIgnoreRemote(p)
            THEN ~action[p].changed /\ action[p].act = "NOOP"
            ELSE action[p].changed /\ action[p].act = "UPDATE"

\* a no-op although the server added a field that is outside the default
\* list: the caller listed it
C9_Witness ==
    \E p \in Procs :
        /\ Decided(p) /\ params[p].state = "present"
        /\ fetched[p] # Absent /\ OtherwiseEqual(p)
        /\ "Validated" \in RemoteOnly(p)
        /\ "Validated" \in CallerIgnoreRemote(p)
        /\ action[p].act = "NOOP"

\* the values of an object, or of one side of a diff
ValuesOf(side) ==
    IF side = Null THEN {}
    ELSE IF HasKey(side, "text") THEN {side.text}
    ELSE {side[k] : k \in DOMAIN side \cap TextKeys} \cup
         (IF HasKey(side, "Schema")
          THEN {side.Schema[j] : j \in DOMAIN side.Schema} ELSE {})

Tokens(m) == {m[i] : i \in 1..Len(m)}

\* a secure param whose schema is of type 'string' with a default
SecureStringDefault(p) ==
    /\ Started(p) /\ play.kind = "params"
    /\ params[p].secure
    /\ HasKey(params[p].schema, "type") /\ params[p].schema["type"] = "string"
    /\ HasKey(params[p].schema, "default")

\* C10: for a secure param with a string schema and default v, v is
\* registered in no_log_values and occurs neither in the emitted message
\* nor in the emitted diff, whatever the outcome.
C10_SecretRedacted ==
    \A p \in Procs :
        SecureStringDefault(p) =>
            LET v == params[p].schema["default"]
            IN  /\ v \in no_log_values[p]
                /\ Returned(p) =>
                      /\ v \notin Tokens(ret[p].output.message)
                      /\ HasKey(ret[p].output, "diff") =>
                            /\ v \notin ValuesOf(ret[p].output.diff.before)
                            /\ v \notin ValuesOf(ret[p].output.diff.after)

\* an update that sets the default, rejected by the server with a message
\* that quotes it: both the diff and the message held v before masking
C10_Witness ==
    \E p \in Procs :
        /\ SecureStringDefault(p) /\ Returned(p)
        /\ action[p].act = "UPDATE" /\ ~params[p].check_mode
        /\ ~HasKey(fetched[p].Schema, "default")
        /\ params[p].schema["default"] \in Tokens(ret[p].kwargs.message)
        /\ params[p].schema["default"] \in ValuesOf(ret[p].kwargs.diff.after)
        /\ ret[p].output.diff.after.Schema["default"] = NO_LOG_PLACEHOLDER

---------------------------------------------------------------------------
(* C11: what a secure param registers for suppression *)

\* the values the claim says are registered for a secure param
ClaimedSecureValues(schema) ==
    IF /\ HasKey(schema, "type") /\ schema["type"] = "string"
       /\ HasKey(schema, "default")
    THEN {schema["default"]}
    ELSE {schema[k] : k \in DOMAIN schema}

\* the values registered on behalf of the schema: all registered values but
\* those of the no_log options
RegisteredForSchema(p) == no_log_values[p] \ ArgNoLog(params[p])

\* C11: for a secure param the registered values are the schema's default
\* when the schema is string-typed with a default, and in every other case
\* (type not 'string', no type key, no default key) every value of the
\* schema.
C11_SecureRegistered ==
    \A p \in Procs :
        (play.kind = "params" /\ Started(p) /\ params[p].secure) =>
            RegisteredForSchema(p) = ClaimedSecureValues(params[p].schema)

---------------------------------------------------------------------------
(* C12: the template diff narrowed to contents *)

\* C12: in rackndr_templates with diff_template_contents=true, a result
\* that carries a diff is returned with the diff narrowed to contents:
\* before is the Contents of the object that was there, null when there was
\* none; after is null for state 'absent' and the Contents of the diff's
\* after object otherwise.
C12_ContentsDiff ==
    \A p \in Procs :
        ( /\ play.kind = "templates" /\ Done(p) /\ Reconciled(p)
          /\ params[p].diff_template_contents
          /\ HasKey(rebar_result[p], "diff") ) =>
            /\ Returned(p)
            /\ ret[p].kwargs.diff.before =
                  IF fetched[p] = Absent THEN Null
                  ELSE Text(fetched[p]["Contents"])
            /\ ret[p].kwargs.diff.after =
                  IF params[p].state = "absent" THEN Null
                  ELSE Text(rebar_result[p].diff.after["Contents"])
            /\ params[p].state = "present" =>
                  ret[p].kwargs.diff.after = Text(params[p].contents)

\* a real deletion of a template whose contents were "abc", returned with
\* diff = {before: "abc", after: null}
C12_Witness ==
    \E p \in Procs :
        /\ play.kind = "templates" /\ Returned(p)
        /\ params[p].diff_template_contents /\ ~params[p].check_mode
        /\ params[p].state = "absent" /\ action[p].act = "DELETE"
        /\ fetched[p] # Absent /\ fetched[p]["Contents"] = "abc"
        /\ ret[p].kwargs.diff = [before |-> Text("abc"), after |-> Null]
        /\ remote = Absent

---------------------------------------------------------------------------
(* C13: the template diff with the contents replaced by the marker *)

\* a diff side as the claim has it presented: null stays null, an object
\* has its Contents replaced by the marker and its other fields kept
MarkedSide(side) ==
    IF side = Null THEN Null ELSE [Contents |-> REDACTED] @@ side

\* C13: in rackndr_templates with diff_template_contents=false, a result
\* that carries a diff is post-processed without error for either state,
\* found or not found: every non-null side has its Contents replaced by the
\* marker with the other fields unchanged, and a null side stays null.
C13_RedactedDiff ==
    \A p \in Procs :
        ( /\ play.kind = "templates" /\ Done(p) /\ Reconciled(p)
          /\ ~params[p].diff_template_contents
          /\ HasKey(rebar_result[p], "diff") ) =>
            /\ Returned(p)
            /\ ret[p].kwargs.diff.before = MarkedSide(rebar_result[p].diff.before)
            /\ ret[p].kwargs.diff.after = MarkedSide(rebar_result[p].diff.after)

---------------------------------------------------------------------------
(* C14: the subnet payload *)

\* the number of leading one-bits of a mask
LeadingOnes(m) ==
    LET b == Bits(m)
        k == {n \in 0..32 : \A i \in 1..n : b[i] = 1}
    IN  CHOOSE n \in k : \A j \in k : j <= n

\* a netmask: a dotted quad whose bits are ones followed by zeroes
WellFormedMask(m) ==
    /\ IsQuad(m)
    /\ \A i \in (LeadingOnes(m) + 1)..32 : Bits(m)[i] = 0

\* a network address with no bit set where the mask has none
NoHostBits(n, m) ==
    /\ IsQuad(n)
    /\ \A i \in 1..32 : Bits(m)[i] = 0 => Bits(n)[i] = 0

\* n with all host bits set, octet by octet
BroadcastOf(n, m) == [j \in 1..4 |-> n[j] + (255 - m[j])]

\* C14: for a well-formed network n and netmask m with no host bits set in
\* n, the payload has Subnet = n/p with p the leading one-bits of m, the
\* broadcast address in Options[4], m in Options[3] and the caller's
\* gateway, dns_server and domain_name in Options[0..2].
C14_SubnetPayload ==
    \A p \in Procs :
        ( /\ play.kind = "subnets" /\ Started(p)
          /\ WellFormedMask(params[p].netmask)
          /\ NoHostBits(params[p].network, params[p].netmask) ) =>
            /\ data[p] # Null
            /\ data[p].Subnet = [ address |-> params[p].network,
                                  prefixlen |-> LeadingOnes(params[p].netmask) ]
            /\ data[p].Options[5].Value =
                  BroadcastOf(params[p].network, params[p].netmask)
            /\ data[p].Options[4].Value = params[p].netmask
            /\ data[p].Options[1].Value = params[p].gateway
            /\ data[p].Options[2].Value = params[p].dns_server
            /\ data[p].Options[3].Value = params[p].domain_name

\* network 192.168.4.0 with netmask 255.255.252.0 shaped into
\* 192.168.4.0/22 with broadcast 192.168.7.255
C14_Witness ==
    \E p \in Procs :
        /\ play.kind = "subnets" /\ Started(p) /\ data[p] # Null
        /\ params[p].network = <<192, 168, 4, 0>>
        /\ params[p].netmask = <<255, 255, 252, 0>>
        /\ data[p].Subnet = [address |-> <<192, 168, 4, 0>>, prefixlen |-> 22]
        /\ data[p].Options[5].Value = <<192, 168, 7, 255>>

---------------------------------------------------------------------------
(* C15: rejected subnet input *)

\* the mask read as a netmask, or else as a hostmask
EffectiveMask(m) ==
    IF WellFormedMask(m) THEN m ELSE [j \in 1..4 |-> 255 - m[j]]

\* network/netmask that is no network: an address or mask that is no dotted
\* quad, a mask that is neither a netmask nor a hostmask, or host bits set
Unparsable(n, m) ==
    \/ ~IsQuad(n) \/ ~IsQuad(m)
    \/ ~WellFormedMask(EffectiveMask(m))
    \/ ~NoHostBits(n, EffectiveMask(m))

\* C15: a subnet invocation whose network/netmask cannot be parsed as a
\* network ends in an error with no transport call issued (no authenticate,
\* no getByName, no write) and the remote object as it was, for either
\* state and in or out of check mode.
C15_RejectBeforeTransport ==
    \A p \in Procs :
        ( /\ play.kind = "subnets" /\ Started(p)
          /\ Unparsable(params[p].network, params[p].netmask) ) =>
            /\ Done(p) /\ ret[p].how = "exception"
            /\ calls[p] = << >>
            /\ AUTH[p] = Null
            /\ remote = before[p]

\* a real run with state 'present' and host bits set in the network, on a
\* subnet that an earlier run had created
C15_Witness ==
    \E p \in Procs :
        /\ play.kind = "subnets" /\ Started(p)
        /\ params[p].network = <<10, 0, 0, 1>>
        /\ params[p].state = "present" /\ ~params[p].check_mode
        /\ Done(p) /\ ret[p].how = "exception" /\ calls[p] = << >>
        /\ remote # Absent

---------------------------------------------------------------------------
(* C16: task template enrichment *)

OptionalTemplateKeys == {"Path", "ID", "Link", "Meta"}

\* the claim for one entry: supplied is the caller's, shaped the payload's
EnrichedAsClaimed(supplied, shaped) ==
    /\ DOMAIN shaped = DOMAIN supplied \cup OptionalTemplateKeys
    /\ \A k \in DOMAIN supplied : shaped[k] = supplied[k]
    /\ \A k \in {"Path", "ID", "Link"} \ DOMAIN supplied : shaped[k] = ""
    /\ "Meta" \notin DOMAIN supplied => shaped["Meta"] = EmptyObject

\* C16: after shaping, every template entry of a task has Path, ID, Link
\* and Meta; a key the caller supplied keeps the caller's value, also an
\* empty or null one, an omitted key gets '' (Path, ID, Link) or {} (Meta),
\* and every other key of the entry is unchanged.
C16_TemplateEnrichment ==
    \A p \in Procs :
        (play.kind = "tasks" /\ Started(p)) =>
            /\ data[p] # Null
            /\ Len(data[p].Templates) = Len(params[p].templates)
            /\ \A i \in 1..Len(params[p].templates) :
                  EnrichedAsClaimed(params[p].templates[i], data[p].Templates[i])

\* a task whose first entry supplied Path, an empty Link and a null ID and
\* kept them, and got Meta = {}; its second entry supplied Meta and got
\* Path = ''
C16_Witness ==
    \E p \in Procs :
        /\ play.kind = "tasks" /\ Started(p) /\ data[p] # Null
        /\ Len(params[p].templates) = 2
        /\ params[p].templates[1]["Path"] = "/p"
        /\ data[p].Templates[1]["Path"] = "/p"
        /\ data[p].Templates[1]["Link"] = ""
        /\ data[p].Templates[1]["ID"] = None
        /\ data[p].Templates[1]["Meta"] = EmptyObject
        /\ data[p].Templates[2]["Meta"] = [color |-> "blue"]
        /\ data[p].Templates[2]["Path"] = ""

---------------------------------------------------------------------------
(* C17: credential selection *)

---------------------------------------------------------------------------
(* C18: the ignore lists of the caller reach the Reconciler *)

\* C18: in each of the five modules ignore_remote_keys is an option and its
\* value is the remote ignore list of the RackNDr object; likewise the
\* local ignore list is the caller's.
C18_IgnoreListsUsed ==
    \A p \in Procs :
        Started(p) =>
            /\ HasKey(params[p], "ignore_remote_keys")
            /\ IgnoreKeys(play.kind, params[p]).remote
                  = params[p].ignore_remote_keys
            /\ HasKey(params[p], "ignore_local_keys")
            /\ IgnoreKeys(play.kind, params[p]).local
                  = params[p].ignore_local_keys

---------------------------------------------------------------------------
(* C19: the transport calls of one invocation *)

\* C19: the transport calls of an invocation are authenticate, then
\* getByName, then at most one of create / update / delete: one credential
\* fetch, one read once the token is there, at most one write, and the read
\* and the write carry the header that this invocation's own credential
\* fetch returned.
C19_CallOrder ==
    \A p \in Procs :
        LET c == calls[p]
        IN  /\ Len(c) <= 3
            /\ Len(c) >= 1 => c[1].op = "authenticate"
            /\ Len(c) >= 2 =>
                  /\ c[2].op = "getByName"
                  /\ c[1].response # Null
                  /\ c[2].auth = c[1].response.header
            /\ Len(c) = 3 =>
                  /\ c[3].op \in WriteOps
                  /\ c[3].auth = c[1].response.header
            /\ (pc[p] \in {"authed", "decided", "reconciled"} \/ Done(p)) =>
                  (data[p] # Null => Len(c) >= 1)
            /\ (Decided(p) \/ Reconciled(p)) => Len(c) >= 2
            /\ (Reconciled(p) /\ Len(c) = 3) =>
                  c[3].op = CallOf(action[p].act)

\* an update issued with the second token of the server, after the token
\* request and the read of the same invocation
C19_Witness ==
    \E p \in Procs :
        /\ Reconciled(p) /\ Len(calls[p]) = 3
        /\ calls[p][1].op = "authenticate"
        /\ calls[p][1].response = TokenResponse("tokenB")
        /\ calls[p][2].op = "getByName"
        /\ calls[p][3].op = "update"
        /\ calls[p][3].auth = <<"Bearer", "tokenB">>

---------------------------------------------------------------------------
(* C20: nothing is attempted after a fatal error *)

CallOps(p) == [i \in 1..Len(calls[p]) |-> calls[p][i].op]

\* C20: after a failed credential exchange there is no getByName and no
\* write; after a failed getByName there is no write; a failed write is
\* the only write of the invocation. In each case the remote object is the
\* one that was there when the invocation started, and the invocation ends
\* as failed.
C20_NoMutationAfterError ==
    \A p \in Procs :
        /\ (Done(p) /\ ret[p].error = "AuthError") =>
              /\ CallOps(p) = <<"authenticate">>
              /\ remote = before[p]
        /\ (Done(p) /\ ret[p].error = "TransportError") =>
              /\ CallOps(p) = <<"authenticate", "getByName">>
              /\ remote = before[p]
        /\ (Reconciled(p) /\ rebar_result[p].http_code \notin {200, 201}) =>
              /\ CallOps(p) =
                    <<"authenticate", "getByName", CallOf(action[p].act)>>
              /\ remote = before[p]
              /\ Done(p) => ret[p].how # "exit_json"

\* an update that the server refused: returned through fail_json, with one
\* write issued and the stored object as it was
C20_Witness ==
    \E p \in Procs :
        /\ Returned(p) /\ Reconciled(p)
        /\ rebar_result[p].http_code = 500
        /\ action[p].act = "UPDATE"
        /\ ret[p].how = "fail_json"
        /\ CallOps(p) = <<"authenticate", "getByName", "update">>
        /\ remote = before[p] /\ remote # Absent

---------------------------------------------------------------------------
(* C21: two concurrent invocations on the same name *)

\* the objects the remote API may hold after accepting a write of p
StoredBy(p) == {Stored(data[p], added) : added \in ServerFieldChoices}

\* C21: nothing on the client orders one invocation's read and write
\* against the other's: an invocation that fetched NOT_FOUND decides CREATE
\* and issues its create call whatever the other has done meanwhile, and
\* what is stored is what the remote API kept of the writes it was sent.
C21_NoClientLock ==
    \A p \in RaceProcs :
        /\ (Decided(p) /\ fetched[p] = Absent) => action[p].act = "CREATE"
        /\ (Reconciled(p) /\ fetched[p] = Absent) =>
              /\ Len(calls[p]) = 3
              /\ calls[p][3].op = "create"
        /\ remote # Absent =>
              \E q \in RaceProcs :
                  /\ Reconciled(q) /\ OpsOf(q) \cap {"create", "update"} # {}
                  /\ remote \in StoredBy(q)

\* both invocations fetched NOT_FOUND before either wrote, both decided
\* CREATE and both issued a create call that the server accepted; the
\* object stored is the one of the second, which differs from the first's
C21_Witness ==
    /\ DOMAIN pc = RaceProcs
    /\ \A p \in RaceProcs :
          /\ Reconciled(p) /\ fetched[p] = Absent
          /\ action[p].act = "CREATE"
          /\ calls[p][3].op = "create"
          /\ rebar_result[p].http_code = 201
    /\ data[1] # data[2]
    /\ remote \in StoredBy(2)

---------------------------------------------------------------------------
(* C22: the two ignore lists *)

\* C22 as claimed: the remote and the local ignore list handed to the
\* Reconciler have no field name in common, whatever lists the caller
\* supplied.
C22_Disjoint ==
    \A p \in Procs :
        Started(p) =>
            IgnoreKeys(play.kind, params[p]).remote
                \cap IgnoreKeys(play.kind, params[p]).local = {}

\* C22 as amended: in rackndr_tasks the lists handed to the Reconciler are
\* the caller's two lists as supplied, hence disjoint when the caller's
\* lists are, as the two defaults are.
C22_DisjointAsSupplied ==
    /\ DefaultIgnoreRemote \cap DefaultIgnoreLocal = {}
    /\ \A p \in Procs :
          (play.kind = "tasks" /\ Started(p)) =>
              LET ik == IgnoreKeys(play.kind, params[p])
              IN  /\ ik.remote = play.ignore_remote_keys
                  /\ ik.local = play.ignore_local_keys
                  /\ play.ignore_remote_keys \cap play.ignore_local_keys = {}
                        => ik.remote \cap ik.local = {}

\* a task run whose caller lists Meta as a remote key and Description as a
\* local key: disjoint lists, and the decision was taken with them
C22_Witness ==
    \E p \in Procs :
        /\ play.kind = "tasks" /\ Decided(p)
        /\ params[p].ignore_remote_keys = ExampleIgnoreRemote
        /\ params[p].ignore_local_keys = {"Description"}
        /\ IgnoreKeys(play.kind, params[p]).remote
              \cap IgnoreKeys(play.kind, params[p]).local = {}

---------------------------------------------------------------------------
(* C23: the defaults skeleton after payload shaping *)

\* C23: building a payload leaves the constant defaults of the kind as the
\* library defines them (for subnets the Value entries of the Options
\* list), and the payload is the one that the invocation's own options give
\* from those defaults.
C23_SkeletonUnchanged ==
    \A p \in Procs :
        Started(p) =>
            /\ CONSTANTS_live[p] = CONSTANTS_of(play.kind)
            /\ data[p] # Null => data[p] = ShapePayload(play.kind, params[p])

====
